---- MODULE Spec2Model ----
(***************************************************************************)
(* Model of chmike/tail (tail.go): a Tail session made of one worker       *)
(* goroutine (runTail), the consumer thread (Close, receives on Line), the *)
(* fsnotify watcher used by the worker and the file system behind the      *)
(* monitored path.                                                         *)
(*                                                                         *)
(* Bytes are integers, a line is a sequence of bytes.  Slice indices of    *)
(* the Go code are 0-based; the sequences here are 1-based, so the Go byte *)
(* buf[i] is buf[i+1] here.                                                *)
(***************************************************************************)
EXTENDS Integers, Sequences, FiniteSets, TLC

\* ---------------------------------------------------------------- bounds
\* longest file content drawn by InitScan
MaxLen == 5
\* longest content of the file that is at the path when NewTail is called
MaxBytes == 3
\* number of changes the environment makes to the file system under Spec
MaxEnv == 2
\* number of changes the environment makes to the file system under SpecRot
MaxEnvRot == 6
\* largest initial capacity of the reading buffer drawn by InitGrow
MaxCap == 3
\* most Close() calls the consumer makes
MaxCloses == 2
\* longest content of the file that is at the path under SpecLive
MaxBytesLive == 6
\* number of changes the environment makes to the file system under SpecLive
MaxEnvLive == 2

\* ------------------------------------------------------ program constants
\* '\n', '\r' and an ordinary byte, the 'l' of the tests' "line 1"
LF == 10
CR == 13
OB == 108
\* capacity of the Line channel (the value the tests run with)
lineChanSize == 2
\* initial capacity of the reading buffer (the value the tests run with)
bufInitSize == 3
\* capacity of the Error channel
errorChanSize == 1
\* delay, maxDelay := time.Second, 30*time.Second   (in seconds)
initDelay == 1
maxDelay == 30

Nil == 0
\* the nil *os.File
NilFile == [id |-> Nil, pos |-> 0, closed |-> FALSE]
EOF == "EOF"
NoErr == "nil"

Alphabet == {LF, CR, OB}

\* the writer of the concurrent specifications logs one line again and again,
\* a byte at a time ("l" in the first file, "m" in the second, ...): the k-th
\* byte of file f
WriterByte(f, k) == IF k % 2 = 1 THEN OB + (f - 1) ELSE LF

WriterText(f, n) == [k \in 1..n |-> WriterByte(f, k)]

Min(a, b) == IF a < b THEN a ELSE b

\* all sequences over S of length 0..n
SeqsUpTo(S, n) == UNION {[1..k -> S] : k \in 0..n}

VARIABLES
    \* ---- the Tail struct
    file,       \* t.file: NilFile or the handle [id, pos, closed]
    Line,       \* every line ever sent on t.Line, in order (the channel holds
                \* the ones not yet received)
    recvd,      \* number of lines the consumer has received from t.Line
    Error,      \* every error ever sent on t.Error, in order
    done,       \* TRUE when the channel t.done is closed
    buf,        \* t.buf, a byte sequence of length len(t.buf)
    nbytes,     \* t.nbytes
    watcher,    \* t.watcher: Nil or the watcher created by NewWatcher
    leaked,     \* open file handles that t.file no longer refers to
    \* ---- the worker goroutine runTail
    pc,         \* position of the worker in runTail
    err,        \* the variable err of runTail
    retTo,      \* which call of readLines is running: "init", "write", "rot"
    rn,         \* readLines: nbytes, the value of t.nbytes before the read
    idx,        \* readLines: i
    begPos,     \* readLines: begPos
    delay,      \* the rotation's delay, in seconds
    attempts,   \* number of openFile calls of the current rotation
    sleeps,     \* the delays slept in the current rotation, in order
    gen,        \* number of rotations whose flush the worker has done
    hist,       \* the files the worker is done with, in order: [id, pos,
                \* flushed], pos the number of bytes it read from the file
    sel,        \* the select the worker executes: "none" while it has not
                \* committed to a case, "parked" when it found no case ready
                \* and sleeps, or the case that woke it up
    outClosed,  \* the channels among "Line" and "Error" that are closed
    \* ---- Close(), run by the consumer ("c") and by the worker's defer ("w")
    cpc,        \* position of each thread inside Close ("out" when not in it)
    closes,     \* number of Close() calls the consumer has started
    panic,      \* "none", or the run-time panic that stopped the program
    \* ---- the fsnotify watcher
    wState,     \* "none", "open", "closed"
    watched,    \* the file the watcher has a watch on, or Nil
    events,     \* events not yet received from watcher.Events
    werrors,    \* errors not yet received from watcher.Errors
    \* ---- the file system and the fault injected in this run
    fileData,   \* contents of every file ever created, by file id
    pathId,     \* the file currently at t.fileName, or Nil
    fault,      \* "none" or the call that fails in this run
    envLeft     \* number of changes the environment may still make

tailVars == <<file, Line, recvd, Error, done, buf, nbytes, watcher, leaked>>
workVars == <<pc, err, retTo, rn, idx, begPos, delay, attempts, sleeps, gen, hist>>
closeVars == <<cpc, closes, panic>>
watchVars == <<wState, watched, events, werrors>>
fsVars == <<fileData, pathId, fault, envLeft>>
vars == <<tailVars, workVars, closeVars, watchVars, fsVars, sel, outClosed>>

\* ------------------------------------------------------------------ NewTail
\* the fields NewTail sets when the package variable bufInitSize is c, and the
\* worker about to run
NewTailSized(c) ==
    /\ file = NilFile
    /\ Line = <<>>
    /\ recvd = 0
    /\ Error = <<>>
    /\ done = FALSE
    /\ buf = [k \in 1..c |-> 0]
    /\ nbytes = 0
    /\ watcher = Nil
    /\ leaked = 0
    /\ pc = "start"
    /\ err = NoErr
    /\ retTo = "init"
    /\ rn = 0
    /\ idx = 0
    /\ begPos = 0
    /\ delay = 0
    /\ attempts = 0
    /\ sleeps = <<>>
    /\ gen = 0
    /\ hist = <<>>
    /\ sel = "none"
    /\ outClosed = {}
    /\ cpc = [th \in {"c", "w"} |-> "out"]
    /\ closes = 0
    /\ panic = "none"
    /\ wState = "none"
    /\ watched = Nil
    /\ events = <<>>
    /\ werrors = <<>>

NewTail == NewTailSized(bufInitSize)

Faults ==
    {"none", "newWatcher", "testError1", "stat", "read", "add", "watchErr", "feedClose"}

\* the concurrent specification: the path is missing or holds a short file
Init ==
    /\ NewTail
    /\ fault \in Faults
    /\ envLeft = MaxEnv
    /\ \E n \in 0..MaxBytes :
          \/ fileData = <<WriterText(1, n)>> /\ pathId = 1
          \/ fileData = <<>> /\ pathId = Nil /\ n = 0

\* the rotation specification: no fault, a consumer that only receives
InitRot ==
    /\ NewTail
    /\ fault = "none"
    /\ envLeft = MaxEnvRot
    /\ \E n \in 0..MaxBytes : fileData = <<WriterText(1, n)>>
    /\ pathId = 1

\* the fair specification: no fault, a file of three lines, one more than the
\* Line channel holds, the last one terminated or not
InitLive ==
    /\ NewTail
    /\ fault = "none"
    /\ envLeft = MaxEnvLive
    /\ \E n \in (MaxBytesLive - 1)..MaxBytesLive : fileData = <<WriterText(1, n)>>
    /\ pathId = 1

\* the scan specification: any content over the alphabet, no fault
InitScan ==
    /\ NewTail
    /\ fault = "none"
    /\ envLeft = 0
    /\ fileData \in {<<c>> : c \in SeqsUpTo(Alphabet, MaxLen)}
    /\ pathId = 1

\* the growth specification: any content over the alphabet, read into a
\* buffer of any initial capacity from 1 up, no fault
InitGrow ==
    /\ \E c \in 1..MaxCap : NewTailSized(c)
    /\ fault = "none"
    /\ envLeft = 0
    /\ fileData \in {<<c>> : c \in SeqsUpTo(Alphabet, MaxLen)}
    /\ pathId = 1

\* the residue specification: any content over the alphabet, no fault, and a
\* file system that renames or removes the file once
InitResidue ==
    /\ NewTail
    /\ fault = "none"
    /\ envLeft = 1
    /\ fileData \in {<<c>> : c \in SeqsUpTo(Alphabet, MaxLen)}
    /\ pathId = 1

\* ------------------------------------------------------------- channels
\* the lines in the channel t.Line
LineQueue == SubSeq(Line, recvd + 1, Len(Line))

Running == panic = "none"

\* the goroutine sleeps in a select, or has been woken up by one case of it
Parked == sel = "parked"

Woken == sel \notin {"none", "parked"}

\* outputLine's select: the cases it may take, the one that woke the worker
\* up or else the ones that are ready
OutputReady ==
    IF Woken THEN {sel}
    ELSE (IF done THEN {"closed"} ELSE {})
             \cup (IF Len(LineQueue) < lineChanSize THEN {"sent"} ELSE {})

\* the worker is in outputLine
InOutputLine ==
    \/ pc = "rl_scan" /\ \E i \in idx..(nbytes - 1) : buf[i + 1] = LF
    \/ pc = "flush" /\ nbytes > 0

\* the value of sel after another thread made case c of the worker's select
\* ready: a parked worker is woken up by it, and will take it
Wake(inSelect, c) == IF Parked /\ inSelect THEN c ELSE sel

\* a runTail that goes on whatever readLines returns
AfterReadLinesUnchecked(e) == IF retTo = "init" THEN "add" ELSE "loop"

\* where runTail goes when the running readLines call returns e
AfterReadLines(e) ==
    IF e # EOF THEN "defer"
    ELSE IF retTo = "init" THEN "add" ELSE "loop"

\* ---------------------------------------------------------------- runTail
\* t.watcher, err = fsnotify.NewWatcher()
WStart ==
    /\ Running /\ pc = "start"
    /\ IF fault = "newWatcher"
       THEN /\ watcher' = Nil
            /\ err' = "ErrWatchInit"
            /\ pc' = "defer"
            /\ UNCHANGED wState
       ELSE /\ watcher' = 1
            /\ wState' = "open"
            /\ err' = IF fault = "testError1" THEN "testError1" ELSE NoErr
            /\ pc' = IF fault = "testError1" THEN "defer" ELSE "open"
    /\ UNCHANGED <<file, Line, recvd, Error, done, buf, nbytes, leaked>>
    /\ UNCHANGED <<retTo, rn, idx, begPos, delay, attempts, sleeps, gen, hist>>
    /\ UNCHANGED <<closeVars, watched, events, werrors, fsVars>>
    /\ UNCHANGED sel
    /\ UNCHANGED outClosed

\* openFile: the new value of t.file and the error returned
OpenFile ==
    IF pathId = Nil
    THEN [f |-> NilFile, e |-> "ErrNotExist"]
    ELSE [f |-> [id |-> pathId, pos |-> 0, closed |-> FALSE],
          e |-> IF fault = "stat" THEN "ErrStat" ELSE NoErr]

\* err = t.openFile() at the start of runTail
WOpen ==
    /\ Running /\ pc = "open"
    /\ file' = OpenFile.f
    /\ err' = OpenFile.e
    /\ pc' = IF OpenFile.e # NoErr THEN "defer" ELSE "rl_read"
    /\ retTo' = "init"
    /\ UNCHANGED <<Line, recvd, Error, done, buf, nbytes, watcher, leaked>>
    /\ UNCHANGED <<rn, idx, begPos, delay, attempts, sleeps, gen, hist>>
    /\ UNCHANGED <<closeVars, watchVars, fsVars>>
    /\ UNCHANGED sel
    /\ UNCHANGED outClosed

\* ---------------------------------------------------------------- readLines
\* a buffer that grows by one byte
GrownByOne == IF Len(buf) = nbytes THEN Append(buf, 0) ELSE buf

\* a doubling that forgets copy(tmp, t.buf)
GrownEmpty ==
    IF Len(buf) = nbytes THEN [k \in 1..(2 * Len(buf)) |-> 0] ELSE buf

\* the buffer after the doubling at the head of the loop
Grown == IF Len(buf) = nbytes THEN buf \o [k \in 1..Len(buf) |-> 0] ELSE buf

\* what t.file.Read(t.buf[t.nbytes:]) may return: [n, e]
ReadResults ==
    LET avail == Len(fileData[file.id]) - file.pos
        space == Len(Grown) - nbytes
    IN  (IF fault = "read" THEN {[n |-> 0, e |-> "ErrRead"]} ELSE {})
        \cup (IF avail = 0 THEN {[n |-> 0, e |-> EOF]}
              ELSE {[n |-> k, e |-> NoErr] : k \in 1..Min(avail, space)})

\* one pass of the loop head: grow, read, and return on an error
WRead ==
    /\ Running /\ pc = "rl_read"
    /\ \E r \in ReadResults :
          /\ buf' = [k \in 1..Len(Grown) |->
                        IF k > nbytes /\ k <= nbytes + r.n
                        THEN fileData[file.id][file.pos + (k - nbytes)]
                        ELSE Grown[k]]
          /\ file' = [file EXCEPT !.pos = @ + r.n]
          /\ rn' = nbytes
          /\ nbytes' = nbytes + r.n
          /\ IF r.e # NoErr
             THEN /\ err' = r.e
                  /\ pc' = AfterReadLines(r.e)
                  /\ UNCHANGED <<idx, begPos>>
             ELSE /\ idx' = nbytes
                  /\ begPos' = 0
                  /\ pc' = "rl_scan"
                  /\ UNCHANGED err
    /\ UNCHANGED <<Line, recvd, Error, done, watcher, leaked>>
    /\ UNCHANGED <<retTo, delay, attempts, sleeps, gen, hist>>
    /\ UNCHANGED <<closeVars, watchVars, fsVars>>
    /\ UNCHANGED sel
    /\ UNCHANGED outClosed

\* the Go indices i in idx..nbytes-1 with buf[i] == '\n'
Terminators == {i \in idx..(nbytes - 1) : buf[i + 1] = LF}

NextTerminator == CHOOSE i \in Terminators : \A j \in Terminators : i <= j

\* LineEnd looking for the '\r' only among the bytes of the last read
LineEndSameRead(i) == IF i > rn /\ buf[i] = CR THEN i - 1 ELSE i

\* the end (exclusive, as a Go index) of the line whose terminator is at Go
\* index i: the '\r' before the '\n' is left out
LineEnd(i) == IF i > 0 /\ buf[i] = CR THEN i - 1 ELSE i

LineAt(i) == SubSeq(buf, begPos + 1, LineEnd(i))

\* a compaction that sets t.nbytes and leaves the bytes where they are
NotCompacted == buf

\* t.nbytes = copy(t.buf, buf[begPos:])
Compacted ==
    [k \in 1..Len(buf) |-> IF k <= nbytes - begPos THEN buf[begPos + k] ELSE buf[k]]

\* the scan of the bytes just read: up to the next terminator and its
\* outputLine, or to the end of the buffer and the compaction
WScan ==
    /\ Running /\ pc = "rl_scan"
    /\ sel' = "none"
    /\ IF Terminators = {}
       THEN /\ buf' = IF begPos # 0 THEN Compacted ELSE buf
            /\ nbytes' = IF begPos # 0 THEN nbytes - begPos ELSE nbytes
            /\ pc' = "rl_read"
            /\ UNCHANGED <<Line, err, idx, begPos, panic>>
       ELSE IF begPos > LineEnd(NextTerminator)
       THEN /\ panic' = "slice bounds out of range"
            /\ UNCHANGED <<Line, err, idx, begPos, buf, nbytes, pc>>
       ELSE \E o \in OutputReady :
            IF o = "sent"
            THEN /\ Line' = Append(Line, [line |-> LineAt(NextTerminator),
                                          gen |-> gen, flush |-> FALSE])
                 /\ begPos' = NextTerminator + 1
                 /\ idx' = NextTerminator + 1
                 /\ UNCHANGED <<err, buf, nbytes, pc, panic>>
            ELSE /\ err' = NoErr
                 /\ pc' = AfterReadLines(NoErr)
                 /\ UNCHANGED <<Line, idx, begPos, buf, nbytes, panic>>
    /\ UNCHANGED <<file, recvd, Error, done, watcher, leaked>>
    /\ UNCHANGED <<retTo, rn, delay, attempts, sleeps, gen, hist>>
    /\ UNCHANGED <<cpc, closes, watchVars, fsVars>>
    /\ UNCHANGED outClosed

\* ------------------------------------------------- runTail, the event loop
\* err = t.watcher.Add(t.fileName): the error returned
AddError ==
    IF wState = "closed" THEN "ErrClosed"
    ELSE IF pathId = Nil THEN "ErrWatchNotExist"
    ELSE IF fault = "add" THEN "ErrAdd"
    ELSE NoErr

\* start watching the file
WAdd ==
    /\ Running /\ pc = "add"
    /\ IF watcher = Nil
       THEN /\ panic' = "nil pointer dereference"
            /\ UNCHANGED <<pc, err, watched>>
       ELSE /\ err' = AddError
            /\ watched' = IF AddError = NoErr THEN pathId ELSE watched
            /\ pc' = IF AddError = NoErr THEN "loop" ELSE "defer"
            /\ UNCHANGED panic
    /\ UNCHANGED <<tailVars, retTo, rn, idx, begPos, delay, attempts, sleeps, gen, hist>>
    /\ UNCHANGED <<cpc, closes, wState, events, werrors, fsVars>>
    /\ UNCHANGED sel
    /\ UNCHANGED outClosed

\* for !t.IsClosed()
WLoop ==
    /\ Running /\ pc = "loop"
    /\ pc' = IF done THEN "defer" ELSE "select"
    /\ UNCHANGED <<tailVars, err, retTo, rn, idx, begPos, delay, attempts, sleeps, gen, hist>>
    /\ UNCHANGED <<closeVars, watchVars, fsVars>>
    /\ UNCHANGED sel
    /\ UNCHANGED outClosed

\* entering the select: t.watcher.Events and t.watcher.Errors are evaluated
WSelect ==
    /\ Running /\ pc = "select"
    /\ IF watcher = Nil
       THEN panic' = "nil pointer dereference" /\ UNCHANGED pc
       ELSE pc' = "wait" /\ UNCHANGED panic
    /\ UNCHANGED <<tailVars, err, retTo, rn, idx, begPos, delay, attempts, sleeps, gen, hist>>
    /\ UNCHANGED <<cpc, closes, watchVars, fsVars>>
    /\ UNCHANGED sel
    /\ UNCHANGED outClosed

\* the cases the select may take: the one that woke the worker up or else
\* the ones that are ready
SelectReady ==
    IF Woken THEN {sel}
    ELSE (IF done THEN {"done"} ELSE {})
             \cup (IF wState = "closed" THEN {"eventsClosed", "errorsClosed"} ELSE {})
             \cup (IF wState = "open" /\ events # <<>> THEN {"event"} ELSE {})
             \cup (IF wState = "open" /\ werrors # <<>> THEN {"error"} ELSE {})

\* a select with no case ready puts the goroutine to sleep
WPark ==
    /\ Running /\ sel = "none"
    /\ \/ pc = "wait" /\ SelectReady = {}
       \/ InOutputLine /\ OutputReady = {}
    /\ sel' = "parked"
    /\ UNCHANGED <<tailVars, workVars, closeVars, watchVars, fsVars>>
    /\ UNCHANGED outClosed

\* a dispatch that takes a Remove for a rotation too
DispatchRemoveToo(ev) ==
    IF ev = "Write" THEN "rl_read"
    ELSE IF ev \in {"Rename", "Remove"} THEN "flush"
    ELSE "loop"

\* where the worker goes with the event it received
Dispatch(ev) ==
    IF ev = "Write" THEN "rl_read"
    ELSE IF ev = "Rename" THEN "flush"
    ELSE "loop"

\* a select whose Errors case declares its own err
ErrAfterCaseShadowed(c) == IF c = "errorsClosed" THEN NoErr ELSE err

\* runTail's err after the select took case c: case err, ok = <-t.watcher.Errors
\* assigns the value received, nil when the channel is closed
ErrAfterCase(c) ==
    IF c = "error" THEN Head(werrors)
    ELSE IF c = "errorsClosed" THEN NoErr
    ELSE err

\* the select takes one ready case
WWait ==
    /\ Running /\ pc = "wait"
    /\ sel' = "none"
    /\ \E c \in SelectReady :
          /\ pc' = IF c = "event" THEN Dispatch(Head(events)) ELSE "defer"
          /\ err' = ErrAfterCase(c)
          /\ events' = IF c = "event" THEN Tail(events) ELSE events
          /\ werrors' = IF c = "error" THEN Tail(werrors) ELSE werrors
          /\ retTo' = IF c = "event" /\ Head(events) = "Write" THEN "write" ELSE retTo
    /\ UNCHANGED <<tailVars, rn, idx, begPos, delay, attempts, sleeps, gen, hist>>
    /\ UNCHANGED <<closeVars, wState, watched, fsVars>>
    /\ UNCHANGED outClosed

\* ------------------------------------------------------ runTail, rotation
\* a rotation that drops the unterminated bytes instead of flushing them
FlushNothing == {"none"}

\* if t.nbytes > 0 && !t.outputLine(t.buf[:t.nbytes]): what the flush may do
FlushOutcomes == IF nbytes > 0 THEN OutputReady ELSE {"none"}

\* the flush of the unterminated bytes, then t.nbytes = 0 and t.file.Close()
WFlush ==
    /\ Running /\ pc = "flush"
    /\ sel' = "none"
    /\ \E o \in FlushOutcomes :
          IF o = "closed"
          THEN /\ pc' = "defer"
               /\ UNCHANGED <<Line, nbytes, file, gen, hist>>
          ELSE /\ Line' = IF o = "sent"
                          THEN Append(Line, [line |-> SubSeq(buf, 1, nbytes),
                                             gen |-> gen, flush |-> TRUE])
                          ELSE Line
               /\ nbytes' = 0
               /\ file' = [file EXCEPT !.closed = TRUE]
               /\ gen' = gen + 1
               /\ hist' = Append(hist, [id |-> file.id, pos |-> file.pos,
                                        flushed |-> TRUE])
               /\ pc' = "remove"
    /\ UNCHANGED <<recvd, Error, done, buf, watcher, leaked>>
    /\ UNCHANGED <<err, retTo, rn, idx, begPos, delay, attempts, sleeps>>
    /\ UNCHANGED <<closeVars, watchVars, fsVars>>
    /\ UNCHANGED outClosed

\* t.watcher.Remove(t.fileName); delay, maxDelay := ...
WRemove ==
    /\ Running /\ pc = "remove"
    /\ IF watcher = Nil
       THEN /\ panic' = "nil pointer dereference"
            /\ UNCHANGED <<pc, watched, delay, attempts, sleeps>>
       ELSE /\ watched' = IF wState = "open" THEN Nil ELSE watched
            /\ delay' = initDelay
            /\ attempts' = 0
            /\ sleeps' = <<>>
            /\ pc' = "reopen"
            /\ UNCHANGED panic
    /\ UNCHANGED <<tailVars, err, retTo, rn, idx, begPos, gen, hist>>
    /\ UNCHANGED <<cpc, closes, wState, events, werrors, fsVars>>
    /\ UNCHANGED sel
    /\ UNCHANGED outClosed

\* a reopen loop that never gives up
RetryAlways == TRUE

\* the loop condition delay < maxDelay
RetryAllowed == delay < maxDelay

\* for delay < maxDelay { if err = t.openFile(); err == nil { break } ...
WReopen ==
    /\ Running /\ pc = "reopen"
    /\ IF RetryAllowed
       THEN /\ file' = OpenFile.f
            /\ leaked' = IF file.id # Nil /\ ~file.closed THEN leaked + 1 ELSE leaked
            /\ err' = OpenFile.e
            /\ attempts' = attempts + 1
            /\ pc' = IF OpenFile.e = NoErr THEN "reopened" ELSE "sleep"
       ELSE /\ pc' = "reopened"
            /\ UNCHANGED <<file, leaked, err, attempts>>
    /\ UNCHANGED <<Line, recvd, Error, done, buf, nbytes, watcher>>
    /\ UNCHANGED <<retTo, rn, idx, begPos, delay, sleeps, gen, hist>>
    /\ UNCHANGED <<closeVars, watchVars, fsVars>>
    /\ UNCHANGED sel
    /\ UNCHANGED outClosed

\* a backoff that triples
TripleDelay == delay * 3

\* delay *= 2
NextDelay == delay * 2

\* time.Sleep(delay); delay *= 2
WSleep ==
    /\ Running /\ pc = "sleep"
    /\ sleeps' = Append(sleeps, delay)
    /\ delay' = NextDelay
    /\ pc' = "reopen"
    /\ UNCHANGED <<tailVars, err, retTo, rn, idx, begPos, attempts, gen, hist>>
    /\ UNCHANGED <<closeVars, watchVars, fsVars>>
    /\ UNCHANGED sel
    /\ UNCHANGED outClosed

\* if err != nil { return }; t.watcher.Add(t.fileName); err = t.readLines()
WReopened ==
    /\ Running /\ pc = "reopened"
    /\ IF err # NoErr
       THEN /\ pc' = "defer"
            /\ UNCHANGED <<watched, retTo, panic>>
       ELSE IF watcher = Nil
       THEN /\ panic' = "nil pointer dereference"
            /\ UNCHANGED <<pc, watched, retTo>>
       ELSE /\ watched' = IF AddError = NoErr THEN pathId ELSE watched
            /\ retTo' = "rot"
            /\ pc' = "rl_read"
            /\ UNCHANGED panic
    /\ UNCHANGED <<tailVars, err, rn, idx, begPos, delay, attempts, sleeps, gen, hist>>
    /\ UNCHANGED <<cpc, closes, wState, events, werrors, fsVars>>
    /\ UNCHANGED sel
    /\ UNCHANGED outClosed

\* ------------------------------------------------ runTail, the deferred func
\* a deferred function that reports nothing
SendNothing == <<>>

\* a deferred function that reports its error twice
SendTwice == IF err # NoErr THEN <<err, err>> ELSE <<>>

\* if err != nil { t.Error <- err }: what is sent on t.Error
ErrorToSend == IF err # NoErr THEN <<err>> ELSE <<>>

\* the channels among t.Line and t.Error that the deferred function closes:
\* it closes the file and calls Close(), and closes no channel itself
ClosedAtExit == {}

\* the deferred function up to its call of t.Close(): the file is closed and
\* err, when not nil, is sent on t.Error (a channel of capacity 1)
WDefer ==
    /\ Running /\ pc = "defer"
    /\ Len(Error) + Len(ErrorToSend) <= errorChanSize
    /\ file' = IF file.id # Nil THEN NilFile ELSE file
    /\ hist' = IF file.id # Nil /\ ~file.closed
               THEN Append(hist, [id |-> file.id, pos |-> file.pos, flushed |-> FALSE])
               ELSE hist
    /\ Error' = Error \o ErrorToSend
    /\ outClosed' = outClosed \cup ClosedAtExit
    /\ pc' = "close"
    /\ cpc' = [cpc EXCEPT !["w"] = "check"]
    /\ UNCHANGED <<Line, recvd, done, buf, nbytes, watcher, leaked>>
    /\ UNCHANGED <<err, retTo, rn, idx, begPos, delay, attempts, sleeps, gen>>
    /\ UNCHANGED <<closes, panic, watchVars, fsVars>>
    /\ UNCHANGED sel

\* -------------------------------------------------------------------- Close
\* Close() returns to its caller
Return(th) ==
    /\ cpc' = [cpc EXCEPT ![th] = "out"]
    /\ pc' = IF th = "w" THEN "done" ELSE pc

\* an IsClosed() that never finds t.done closed
NeverClosed == FALSE

\* IsClosed()
IsClosed == done

\* if !t.IsClosed()
CloseCheck(th) ==
    /\ Running /\ cpc[th] = "check"
    /\ IF IsClosed
       THEN Return(th)
       ELSE cpc' = [cpc EXCEPT ![th] = "close"] /\ UNCHANGED pc
    /\ UNCHANGED <<tailVars, err, retTo, rn, idx, begPos, delay, attempts, sleeps, gen, hist>>
    /\ UNCHANGED <<closes, panic, watchVars, fsVars>>
    /\ UNCHANGED sel
    /\ UNCHANGED outClosed

\* a Close() that closes t.Line with t.done
CloseClosesLine == {"Line"}

\* the channels among t.Line and t.Error that Close() closes: it closes
\* t.done and no other channel
ClosedByClose == {}

\* close(t.done)
CloseDone(th) ==
    /\ Running /\ cpc[th] = "close"
    /\ IF done
       THEN panic' = "close of closed channel" /\ UNCHANGED <<done, cpc, sel, outClosed>>
       ELSE /\ done' = TRUE
            /\ outClosed' = outClosed \cup ClosedByClose
            /\ sel' = Wake(TRUE, IF pc = "wait" THEN "done" ELSE "closed")
            /\ cpc' = [cpc EXCEPT ![th] = "if"]
            /\ UNCHANGED panic
    /\ UNCHANGED <<file, Line, recvd, Error, buf, nbytes, watcher, leaked>>
    /\ UNCHANGED <<workVars, closes, watchVars, fsVars>>

\* if t.watcher != nil
CloseIf(th) ==
    /\ Running /\ cpc[th] = "if"
    /\ IF watcher # Nil
       THEN cpc' = [cpc EXCEPT ![th] = "wclose"] /\ UNCHANGED pc
       ELSE Return(th)
    /\ UNCHANGED <<tailVars, err, retTo, rn, idx, begPos, delay, attempts, sleeps, gen, hist>>
    /\ UNCHANGED <<closes, panic, watchVars, fsVars>>
    /\ UNCHANGED sel
    /\ UNCHANGED outClosed

\* t.watcher.Close(): the watch is dropped, Events and Errors are closed
CloseWatcher(th) ==
    /\ Running /\ cpc[th] = "wclose"
    /\ IF watcher = Nil
       THEN /\ panic' = "nil pointer dereference"
            /\ UNCHANGED <<cpc, wState, watched, events, werrors>>
       ELSE /\ wState' = "closed"
            /\ watched' = Nil
            /\ events' = IF sel = "event" THEN <<Head(events)>> ELSE <<>>
            /\ werrors' = IF sel = "error" THEN <<Head(werrors)>> ELSE <<>>
            /\ cpc' = [cpc EXCEPT ![th] = "nil"]
            /\ UNCHANGED panic
    /\ UNCHANGED <<tailVars, workVars, closes, fsVars>>
    /\ UNCHANGED sel
    /\ UNCHANGED outClosed

\* t.watcher = nil
CloseNil(th) ==
    /\ Running /\ cpc[th] = "nil"
    /\ watcher' = Nil
    /\ Return(th)
    /\ UNCHANGED <<file, Line, recvd, Error, done, buf, nbytes, leaked>>
    /\ UNCHANGED <<err, retTo, rn, idx, begPos, delay, attempts, sleeps, gen, hist>>
    /\ UNCHANGED <<closes, panic, watchVars, fsVars>>
    /\ UNCHANGED sel
    /\ UNCHANGED outClosed

Close(th) ==
    CloseCheck(th) \/ CloseDone(th) \/ CloseIf(th) \/ CloseWatcher(th) \/ CloseNil(th)

\* --------------------------------------------------------------- consumer
\* line := <-tail.Line: the receive takes the next line of the channel, or,
\* from a channel that is closed and empty, returns at once with no line
CRecv ==
    /\ Running
    /\ recvd < Len(Line) \/ "Line" \in outClosed
    /\ recvd' = IF recvd < Len(Line) THEN recvd + 1 ELSE recvd
    /\ sel' = Wake(InOutputLine, "sent")
    /\ UNCHANGED <<file, Line, Error, done, buf, nbytes, watcher, leaked>>
    /\ UNCHANGED <<workVars, closeVars, watchVars, fsVars>>
    /\ UNCHANGED outClosed

\* the consumer calls tail.Close()
CCall ==
    /\ Running
    /\ cpc["c"] = "out"
    /\ closes < MaxCloses
    /\ closes' = closes + 1
    /\ cpc' = [cpc EXCEPT !["c"] = "check"]
    /\ UNCHANGED <<tailVars, workVars, panic, watchVars, fsVars>>
    /\ UNCHANGED sel
    /\ UNCHANGED outClosed

\* ------------------------------------------- the file system and the feed
\* the event the feed queues for a change of file f
Notify(f, ev) ==
    IF wState = "open" /\ watched = f /\ f # Nil THEN Append(events, ev) ELSE events

\* the writer appends the next byte of its text to the file at the path
EnvAppend ==
    /\ Running
    /\ envLeft > 0
    /\ pathId # Nil
    /\ fileData' = [fileData EXCEPT ![pathId] = Append(@, WriterByte(pathId, Len(@) + 1))]
    /\ events' = Notify(pathId, "Write")
    /\ sel' = Wake(pc = "wait" /\ events' # events, "event")
    /\ envLeft' = envLeft - 1
    /\ UNCHANGED <<tailVars, workVars, closeVars, wState, watched, werrors, pathId, fault>>
    /\ UNCHANGED outClosed

\* the file at the path is renamed (ev = "Rename") or removed (ev = "Remove")
EnvRotate ==
    /\ Running
    /\ envLeft > 0
    /\ pathId # Nil
    /\ pathId' = Nil
    /\ \E ev \in {"Rename", "Remove"} : events' = Notify(pathId, ev)
    /\ sel' = Wake(pc = "wait" /\ events' # events, "event")
    /\ envLeft' = envLeft - 1
    /\ UNCHANGED <<tailVars, workVars, closeVars, wState, watched, werrors, fileData, fault>>
    /\ UNCHANGED outClosed

\* a new, empty file is created at the path
EnvCreate ==
    /\ Running
    /\ envLeft > 0
    /\ pathId = Nil
    /\ fileData' = Append(fileData, <<>>)
    /\ pathId' = Len(fileData) + 1
    /\ envLeft' = envLeft - 1
    /\ UNCHANGED <<tailVars, workVars, closeVars, watchVars, fault>>
    /\ UNCHANGED sel
    /\ UNCHANGED outClosed

\* the watcher reports an error on watcher.Errors
EnvWatchError ==
    /\ Running
    /\ fault = "watchErr"
    /\ wState = "open"
    /\ werrors = <<>>
    /\ pc # "done"
    /\ werrors' = <<"ErrWatch">>
    /\ sel' = Wake(pc = "wait", "error")
    /\ UNCHANGED <<tailVars, workVars, closeVars, wState, watched, events, fsVars>>
    /\ UNCHANGED outClosed

\* the watcher stops by itself: its goroutine ends and closes Events and Errors
EnvFeedClose ==
    /\ Running
    /\ fault = "feedClose"
    /\ wState = "open"
    /\ pc # "done"
    /\ wState' = "closed"
    /\ watched' = Nil
    /\ events' = IF sel = "event" THEN <<Head(events)>> ELSE <<>>
    /\ werrors' = <<>>
    /\ \E c \in {"eventsClosed", "errorsClosed"} : sel' = Wake(pc = "wait", c)
    /\ UNCHANGED <<tailVars, workVars, closeVars, fsVars>>
    /\ UNCHANGED outClosed

\* ---------------------------------------------------------- specifications
Worker ==
    \/ WStart \/ WOpen \/ WRead \/ WScan \/ WAdd \/ WLoop \/ WSelect \/ WPark \/ WWait
    \/ WFlush \/ WRemove \/ WReopen \/ WSleep \/ WReopened \/ WDefer
    \/ Close("w")

Consumer == CRecv \/ CCall \/ Close("c")

Env == EnvAppend \/ EnvRotate \/ EnvCreate \/ EnvWatchError \/ EnvFeedClose

Next == Worker \/ Consumer \/ Env

\* the worker, a consumer that receives and closes, the environment, faults
Spec == Init /\ [][Next]_vars

NextRot == Worker \/ CRecv \/ EnvAppend \/ EnvRotate \/ EnvCreate

\* rotations of the file under a consumer that only receives
SpecRot == InitRot /\ [][NextRot]_vars

NextLive == Worker \/ Consumer \/ EnvAppend \/ EnvRotate \/ EnvCreate

\* the goroutine of the worker is scheduled as long as it can run; the
\* consumer and the environment do what they like
SpecLive == InitLive /\ [][NextLive]_vars /\ WF_vars(Worker)

NextScan == WStart \/ WOpen \/ WRead \/ WScan \/ CRecv

\* one scan of a file of any content, read in chunks of any sizes
SpecScan == InitScan /\ [][NextScan]_vars

\* one scan of a file of any content into a buffer of any initial capacity
SpecGrow == InitGrow /\ [][NextScan]_vars

NextResidue == Worker \/ CRecv \/ EnvRotate

\* the scan of a file of any content, then its rotation
SpecResidue == InitResidue /\ [][NextResidue]_vars

\* ------------------------------------------------- what the claims speak of
IsPrefix(a, b) == Len(a) <= Len(b) /\ SubSeq(b, 1, Len(a)) = a

HasLF(s) == \E i \in 1..Len(s) : s[i] = LF

FirstLF(s) == CHOOSE i \in 1..Len(s) : s[i] = LF /\ \A j \in 1..(i - 1) : s[j] # LF

StripCR(l) == IF Len(l) > 0 /\ l[Len(l)] = CR THEN SubSeq(l, 1, Len(l) - 1) ELSE l

\* s split on '\n', one '\r' before the '\n' dropped, the bytes after the last
\* '\n' left out
RECURSIVE SplitLines(_)
SplitLines(s) ==
    IF ~HasLF(s) THEN <<>>
    ELSE <<StripCR(SubSeq(s, 1, FirstLF(s) - 1))>>
             \o SplitLines(SubSeq(s, FirstLF(s) + 1, Len(s)))

\* the bytes of s after its last '\n'
RECURSIVE Residue(_)
Residue(s) == IF ~HasLF(s) THEN s ELSE Residue(SubSeq(s, FirstLF(s) + 1, Len(s)))

LinesOf(q) == [k \in 1..Len(q) |-> q[k].line]

Tagged(ls, g, f) == [k \in 1..Len(ls) |-> [line |-> ls[k], gen |-> g, flush |-> f]]

\* the bytes the worker has read from the file it has open
BytesRead == SubSeq(fileData[file.id], 1, file.pos)

\* the lines of the k-th file the worker is done with: those of the bytes it
\* read, then the flush of what follows the last terminator
DoneLines(k) ==
    LET d == SubSeq(fileData[hist[k].id], 1, hist[k].pos)
    IN  Tagged(SplitLines(d), k - 1, FALSE)
            \o (IF hist[k].flushed /\ Residue(d) # <<>>
                THEN Tagged(<<Residue(d)>>, k - 1, TRUE)
                ELSE <<>>)

RECURSIVE DoneUpTo(_)
DoneUpTo(n) == IF n = 0 THEN <<>> ELSE DoneUpTo(n - 1) \o DoneLines(n)

\* the lines due for everything the worker has read so far
Expected ==
    DoneUpTo(Len(hist))
        \o (IF file.id # Nil /\ ~file.closed
            THEN Tagged(SplitLines(BytesRead), Len(hist), FALSE)
            ELSE <<>>)

\* ------------------------------------------------------------------ claims
\* C1: whatever the content of the file and however the reads cut it, the
\* lines readLines has sent once a read is scanned are the bytes read so far
\* split on '\n' with one '\r' before the '\n' dropped, in order and each once;
\* in the middle of a scan they are a prefix of that; the bytes after the last
\* '\n' are not sent, and at end of file this is the whole content.
C1_ScanSplitsOnTerminators ==
    /\ pc \in {"rl_read", "rl_scan", "add"} =>
          IsPrefix(LinesOf(Line), SplitLines(BytesRead))
    /\ pc \in {"rl_read", "add"} => LinesOf(Line) = SplitLines(BytesRead)
    /\ pc = "add" => BytesRead = fileData[1]

\* C1 witness: a '\r' ended one read, the '\n' began the next, and the line
\* sent for them is "l" without the '\r'
C1_SplitPairStripped ==
    /\ pc = "rl_scan"
    /\ rn >= 2 /\ idx = rn + 1
    /\ buf[rn] = CR /\ buf[rn + 1] = LF
    /\ Line # <<>> /\ Line[Len(Line)].line = <<OB>>

\* C2: the lines sent are, file after file, the lines of the bytes read from
\* the file, then (when a Rename was handled with unterminated bytes in the
\* buffer) those bytes as one line, then the lines of the file opened next:
\* the flush comes after every line of the old file and before any line of
\* the new one.
C2_FlushBetweenOldAndNew ==
    /\ IsPrefix(Line, Expected)
    /\ pc # "rl_scan" => Line = Expected

\* C2 witness: "l\nl" in the old file, the rotation, "m\nm\n" in the new file:
\* the lines are l, the flushed l, m, m and the consumer has received them
C2_RotationDelivered ==
    /\ pc = "wait"
    /\ recvd = 4
    /\ Line = <<[line |-> <<OB>>, gen |-> 0, flush |-> FALSE],
                [line |-> <<OB>>, gen |-> 0, flush |-> TRUE],
                [line |-> <<OB + 1>>, gen |-> 1, flush |-> FALSE],
                [line |-> <<OB + 1>>, gen |-> 1, flush |-> FALSE]>>

\* some Close() called by the consumer has returned
CloseReturned == closes > 1 \/ (closes = 1 /\ cpc["c"] = "out")

\* C3: Close() is safe whenever and however often it is called: no
\* interleaving of the consumer's Close() calls with the worker closes t.done
\* twice or uses a watcher that is nil, and once a Close() has returned
\* IsClosed() is true.
C3_CloseIsSafe ==
    /\ panic = "none"
    /\ CloseReturned => IsClosed

\* the errors that stand for a fatal condition
FatalErrors ==
    {"ErrWatchInit", "testError1", "ErrNotExist", "ErrStat", "ErrRead", "ErrAdd",
     "ErrWatchNotExist", "ErrClosed", "ErrWatch"}

\* C4: a Close() by the consumer is not an error: whatever is sent on Error
\* is the error of a fatal condition.
C4_CloseIsNotAnError == \A k \in 1..Len(Error) : Error[k] \in FatalErrors

\* C5: once t.done is closed no line is sent on Line.
C5_NoLineAfterClose == [][done => Line' = Line]_vars

\* C6: when the worker waits for a notification and none is pending (the
\* session is open, the file it reads is the file at the path), every
\* terminated line of the file has been sent: no appended line is left
\* waiting for a notification that will not come.
C6_AppendedLinesAreSent ==
    (/\ pc = "wait" /\ SelectReady = {}
     /\ fault = "none" /\ hist = <<>> /\ pathId = file.id)
        => Line = Tagged(SplitLines(fileData[file.id]), 0, FALSE)

\* the worker is leaving runTail because the reopening of the path failed
GaveUpReopening ==
    gen > 0 /\ pc \in {"defer", "close", "done"} /\ err = "ErrNotExist"

\* C7 as claimed: the worker never ends the session because the reopening of
\* the path fails.
C7_RetriesWithoutBound == ~GaveUpReopening

\* C7 as amended: a rotation makes at most 5 attempts to open the path; the
\* loop is left with an error only after the 5th, and then the worker ends
\* the session and that error is the one value sent on Error.
C7_GivesUpAfterFiveAttempts ==
    /\ attempts <= 5
    /\ (pc = "reopened" /\ err # NoErr) => attempts = 5
    /\ GaveUpReopening => attempts = 5
    /\ (GaveUpReopening /\ pc # "defer") => Error = <<"ErrNotExist">>

\* C7 witness: five failed attempts, the session ended, the error sent
C7_GaveUp ==
    GaveUpReopening /\ pc = "done" /\ attempts = 5 /\ Error = <<"ErrNotExist">>

\* C8 as claimed: the k-th delay slept is 2^(k-1) seconds capped at 30, and
\* every sleep is followed by another attempt to open the path.
C8_DelaysCappedAtThirty ==
    /\ \A k \in 1..Len(sleeps) : sleeps[k] = Min(2 ^ (k - 1), maxDelay)
    /\ (pc = "reopen" /\ sleeps # <<>>) => RetryAllowed

\* C8 as amended: the delays slept are 1, 2, 4, 8, 16 seconds, none above the
\* 30 second cap; each of the first four sleeps is followed by another
\* attempt, the fifth is followed by none.
C8_DelaysDoubleUpToSixteen ==
    /\ IsPrefix(sleeps, <<1, 2, 4, 8, 16>>)
    /\ \A k \in 1..Len(sleeps) : sleeps[k] <= maxDelay
    /\ attempts \in {Len(sleeps), Len(sleeps) + 1}
    /\ pc = "reopen" => attempts = Len(sleeps) /\ (RetryAllowed <=> Len(sleeps) < 5)
    /\ pc = "sleep" => attempts = Len(sleeps) + 1

\* C8 witness: the five delays were slept and the loop is over
C8_AllDelaysSlept ==
    pc = "reopen" /\ sleeps = <<1, 2, 4, 8, 16>> /\ ~RetryAllowed

\* the first openFile found no file at the path
StartNotFound == gen = 0 /\ err = "ErrNotExist"

\* C9: when the path does not exist at the start and the consumer does not
\* call Close(), no line is sent, no watch is registered, the one value sent
\* on Error is the error of the open, and the worker ends with the session
\* closed, the watcher closed and no file open.
C9_NotFoundAtStart ==
    (StartNotFound /\ closes = 0) =>
        /\ panic = "none"
        /\ Line = <<>>
        /\ watched = Nil /\ events = <<>>
        /\ file.id = Nil
        /\ Error = IF pc = "defer" THEN <<>> ELSE <<"ErrNotExist">>
        /\ pc = "done" => IsClosed /\ wState = "closed" /\ watcher = Nil

\* C9 witness: the worker has ended after the failed open
C9_NotFoundEnded ==
    StartNotFound /\ closes = 0 /\ pc = "done" /\ Error = <<"ErrNotExist">>

\* C10: when the worker has ended nothing it owned is left open: no file
\* handle, no watcher, and the session is closed.
C10_AllReleasedAtEnd ==
    (pc = "done" /\ cpc["c"] = "out") =>
        /\ file.id = Nil /\ leaked = 0
        /\ wState # "open"
        /\ IsClosed

\* C11: at most one value is ever sent on Error: nothing before the deferred
\* function of the worker runs, and what it sends, the worker's err when it
\* is not nil, fits in the Error channel though nothing is ever received from
\* it, so the send does not block.
C11_OneErrorNeverBlocks ==
    /\ Len(Error) <= errorChanSize
    /\ pc \notin {"close", "done"} => Error = <<>>
    /\ pc = "defer" => Len(Error) + Len(ErrorToSend) <= errorChanSize
    /\ pc \in {"close", "done"} => Error = ErrorToSend

\* C11 witness: the worker has ended on a failed read, its error is in the
\* Error channel and the consumer never called Close()
C11_ErrorSentUnreceived ==
    pc = "done" /\ closes = 0 /\ err = "ErrRead" /\ Error = <<"ErrRead">>

\* C12: outputLine is a bounded send that gives way to the cancellation: a
\* call returns only by enqueuing the line, in an open session whose Line
\* channel has room, or by returning false with nothing enqueued, in a closed
\* one; a call that finds the session closed, or that sleeps when it is
\* closed, never enqueues (a call woken up by a receive made before the
\* Close() has its line enqueued by then).
C12_OutputLineGivesWayToClose ==
    [][(InOutputLine /\ (Line' # Line \/ pc' # pc)) =>
          IF done /\ sel # "sent"
          THEN Line' = Line /\ pc' = "defer"
          ELSE /\ Len(LineQueue) < lineChanSize
               /\ Len(Line') = Len(Line) + 1
               /\ pc' \in {"rl_scan", "remove"}]_vars

\* the worker slept in a select, in outputLine or in the event loop, when a
\* Close() closed t.done, and has not run since
WokenByClose == sel \in {"done", "closed"}

\* C13: a worker that sleeps waiting for a notification or for room in the
\* Line channel when Close() closes t.done is woken up by it, and then, as
\* long as it is scheduled, runs its deferred function and returns, without
\* a panic, whatever the consumer and the file system do.
C13_CloseUnblocksWorker == WokenByClose ~> (pc = "done" /\ panic = "none")

\* C13 witness: the Line channel is full, the consumer received nothing, and
\* the worker sleeping in outputLine was woken up by a Close()
C13_BlockedSendWoken ==
    /\ sel = "closed" /\ InOutputLine
    /\ recvd = 0 /\ Len(LineQueue) = lineChanSize

\* C14: whatever the initial capacity of the buffer, from 1 up, and whatever
\* the lengths of the lines, longer than the capacity included, every line
\* sent is a whole line of the file, the lines come in the order of the file,
\* and at end of file every terminated line has been sent: no line is cut
\* where the buffer ended.
C14_LongLinesIntact ==
    /\ IsPrefix(LinesOf(Line), SplitLines(fileData[1]))
    /\ pc \in {"rl_read", "add"} => LinesOf(Line) = SplitLines(BytesRead)
    /\ pc = "add" => LinesOf(Line) = SplitLines(fileData[1])

\* C14 witness: a line of 4 bytes was sent whole from a buffer that started
\* with 1 byte and was doubled three times
C14_GrownThrice ==
    /\ Len(buf) = 8
    /\ Line = <<[line |-> <<OB, OB, OB, OB>>, gen |-> 0, flush |-> FALSE]>>

\* the worker receives the event at the head of the feed in this step
TakesEvent == pc = "wait" /\ pc' # "wait" /\ events # <<>> /\ events' = Tail(events)

\* the rotation as the worker runs it, in a session that is not closed: the
\* unterminated bytes are sent as a line, the buffer is emptied and the file
\* closed, then the watch is removed and the reopen loop entered
RotationSteps ==
    /\ pc = "flush" => pc' \in {"flush", "remove"}
    /\ (pc = "flush" /\ pc' = "remove") =>
          /\ Line' = IF nbytes > 0
                     THEN Append(Line, [line |-> SubSeq(buf, 1, nbytes),
                                        gen |-> gen, flush |-> TRUE])
                     ELSE Line
          /\ nbytes' = 0
          /\ file' = [file EXCEPT !.closed = TRUE]
    /\ pc = "remove" => pc' \in {"remove", "reopen"}
    /\ (pc = "remove" /\ pc' = "reopen") =>
          watched' = Nil /\ attempts' = 0 /\ delay' = initDelay

\* C15 as claimed: a Rename and a Remove notification both start a rotation.
C15_RenameAndRemoveRotate ==
    [][/\ (TakesEvent /\ Head(events) \in {"Rename", "Remove"}) => pc' = "flush"
       /\ RotationSteps]_vars

\* C15 as amended: a Rename notification starts a rotation; a Remove
\* notification starts none, the worker goes back to the head of its loop with
\* the file, the watch, the buffer and the lines as they were.
C15_OnlyRenameRotates ==
    [][/\ (TakesEvent /\ Head(events) = "Rename") => pc' = "flush"
       /\ (TakesEvent /\ Head(events) = "Remove") =>
             /\ pc' = "loop"
             /\ UNCHANGED <<file, watched, buf, nbytes, Line, gen>>
       /\ RotationSteps]_vars

\* C15 witness: the watched file was removed from the path, the worker has
\* received the Remove and is back at the head of its loop, with no rotation
\* done and the removed file still open
C15_RemoveIgnored ==
    /\ pc = "loop" /\ gen = 0
    /\ pathId = Nil /\ watched = file.id /\ events = <<>>
    /\ file.id # Nil /\ ~file.closed

\* the worker receives the value at the head of the watcher's error feed in
\* this step
TakesWatchError ==
    pc = "wait" /\ pc' # "wait" /\ werrors # <<>> /\ werrors' = Tail(werrors)

\* C16 as claimed: a value received from the watcher's error feed is never
\* sent on Error.
C16_WatchErrorNotForwarded == \A k \in 1..Len(Error) : Error[k] # "ErrWatch"

\* C16 as amended: the value received from the watcher's error feed becomes
\* the worker's err and the worker leaves its loop; from then on it is
\* terminating, that value is the one value it sends on Error, and it ends
\* with the session closed.
C16_WatchErrorForwarded ==
    /\ [][TakesWatchError => err' = Head(werrors) /\ pc' = "defer"]_vars
    /\ [](err = "ErrWatch" =>
            /\ pc \in {"defer", "close", "done"}
            /\ pc \in {"close", "done"} => Error = <<"ErrWatch">>
            /\ pc = "done" => IsClosed)

\* C16 witness: the worker has ended on the watcher's error and the error is
\* in the Error channel
C16_WatchErrorSent ==
    pc = "done" /\ err = "ErrWatch" /\ Error = <<"ErrWatch">> /\ werrors = <<>>

\* the worker left its loop because the watcher's feed was closed, in a
\* session the consumer never closes
LeftOnClosedFeed ==
    /\ fault = "feedClose" /\ closes = 0
    /\ pc \in {"close", "done"}
    /\ err \notin FatalErrors

\* C17: when the worker leaves its loop because the watcher's event feed was
\* closed, nothing is sent on Error, whatever notifications it handled
\* before, and it ends with the session closed, no file open and the watcher
\* closed.
C17_FeedClosedNoError ==
    LeftOnClosedFeed =>
        /\ Error = <<>>
        /\ pc = "done" => IsClosed /\ file.id = Nil /\ wState # "open"

\* the worker met a fatal condition: the watcher could not be created, the
\* file could not be opened or examined at the start, the watch could not be
\* registered, or a read failed with something else than end of file
FatalMet ==
    \/ err \in {"ErrWatchInit", "testError1", "ErrAdd", "ErrWatchNotExist",
                "ErrClosed", "ErrRead"}
    \/ err \in {"ErrNotExist", "ErrStat"} /\ gen = 0

\* C18: once the worker has met a fatal condition it is terminating; what its
\* deferred function sends on Error is that error and nothing else, it ends
\* with the session closed, and it sends no line after the failure.
C18_FatalErrorSentOnce ==
    /\ [](FatalMet =>
            /\ pc \in {"defer", "close", "done"}
            /\ Error = IF pc = "defer" THEN <<>> ELSE <<err>>
            /\ pc = "done" => IsClosed)
    /\ [][FatalMet => Line' = Line]_vars

\* C18 witness: lines were sent, then the watch could not be registered: the
\* worker has ended and that error is in the Error channel
C18_AddFailedAfterLines ==
    pc = "done" /\ Line # <<>> /\ err = "ErrAdd" /\ Error = <<"ErrAdd">>

\* a line sent by a scan of the file the worker has open
FromOpenFile(r) == r.gen = gen /\ ~r.flush

\* the worker is in its event loop: the last readLines returned at end of file
AfterScanAtEOF == pc \in {"add", "loop", "select", "wait", "flush"}

\* C19: when readLines has returned at end of file, buf[0:nbytes] holds the
\* bytes read from the open file after the last '\n' read, in order and
\* without a '\n', and the lines sent for the file are those of the bytes
\* before them; a line flushed by a rotation holds no '\n'.
C19_BufferHoldsResidue ==
    /\ AfterScanAtEOF =>
          /\ SubSeq(buf, 1, nbytes) = Residue(BytesRead)
          /\ ~HasLF(SubSeq(buf, 1, nbytes))
          /\ LinesOf(SelectSeq(Line, FromOpenFile)) = SplitLines(BytesRead)
    /\ \A k \in 1..Len(Line) :
          Line[k].flush => Line[k].line # <<>> /\ ~HasLF(Line[k].line)

\* C19 witness: the file "l\n\rl" was read to its end, the buffer held "\rl"
\* at its start, and the rotation has flushed that as a line
C19_ResidueFlushed ==
    /\ pc = "remove"
    /\ fileData[1] = <<OB, LF, CR, OB>>
    /\ SubSeq(buf, 1, 2) = <<CR, OB>>
    /\ Line = <<[line |-> <<OB>>, gen |-> 0, flush |-> FALSE],
                [line |-> <<CR, OB>>, gen |-> 0, flush |-> TRUE]>>

\* C20: t.nbytes stays within 0..len(t.buf); len(t.buf) is the initial capacity
\* times a power of two, a step leaves it as it is or, when the buffer is
\* full, doubles it; the rotation sets t.nbytes to 0 and keeps the buffer;
\* and every Read is given a non-empty buf[nbytes:].
C20_BufferOnlyDoubles ==
    /\ [](/\ 0 <= nbytes /\ nbytes <= Len(buf)
          /\ \E k \in 0..MaxLen : Len(buf) = bufInitSize * 2 ^ k)
    /\ [][/\ Len(buf') \in {Len(buf), 2 * Len(buf)}
          /\ Len(buf') # Len(buf) => nbytes = Len(buf)
          /\ (pc = "rl_read" /\ pc' # "rl_read") => nbytes < Len(buf')
          /\ (pc = "flush" /\ pc' = "remove") => nbytes' = 0 /\ buf' = buf]_vars

\* C20 witness: the buffer was doubled for five unterminated bytes, and the
\* rotation that flushed them has emptied it and kept its 6 bytes
C20_DoubledAndKept ==
    /\ pc = "remove" /\ nbytes = 0 /\ Len(buf) = 2 * bufInitSize
    /\ Line = <<[line |-> <<OB, OB, OB, OB, OB>>, gen |-> 0, flush |-> TRUE]>>

\* the worker has returned, no Close() is running, and the consumer has
\* received every line that was sent
EndedAndDrained == pc = "done" /\ cpc["c"] = "out" /\ recvd = Len(Line)

====
